---- MODULE Spec2Model ----
(***************************************************************************)
(* Model of src/bot.js: the in-memory alert registry (priceAlerts), the    *)
(* /alert, /myalerts, /price and /market command handlers, the periodic    *)
(* alert check started by setInterval, and formatPriceChange.              *)
(*                                                                         *)
(* Strings are sequences of one-character strings, so that toLowerCase,    *)
(* parseFloat and the registry key are computed and not assumed.  Prices   *)
(* are integers (whole dollars); percentage changes are integers counting  *)
(* thousandths of a percent.                                               *)
(***************************************************************************)
EXTENDS Integers, Sequences, FiniteSets, TLC

\* ------------------------------------------------------------------ bounds
MaxAlerts == 2    \* most entries the registry holds in the model
MaxPending == 2   \* most alert-check callbacks suspended on their fetch
MaxCoins == 2     \* most coin records in one fetched snapshot
MaxChange == 60   \* formatPriceChange inputs range over -MaxChange..MaxChange

\* ------------------------------------------------------------- input sets
Users == {1, 2}

btc == <<"b", "t", "c">>
BTC == <<"B", "T", "C">>
bit == <<"b", "i", "t">>
bat == <<"b", "a", "t">>
eth == <<"e", "t", "h">>

fifty == <<"5", "0">>
minusFive == <<"-", "5">>

alertCmd == <<"/", "a", "l", "e", "r", "t">>
priceCmd == <<"/", "p", "r", "i", "c", "e">>

\* ctx.message.text.split(' ') for the /alert messages considered: no
\* argument, no price, two spaces after the command, a price that is no
\* number, and every coin of btc, BTC, bit with every price of 50, -5
AlertParts ==
  {<<alertCmd>>, <<alertCmd, btc>>, <<alertCmd, <<>>, fifty>>, <<alertCmd, btc, <<"x">>>>}
  \cup {<<alertCmd, c, p>> : c \in {btc, BTC, bit}, p \in {fifty, minusFive}}

\* ctx.message.text.split(' ') for the /price messages considered
PriceParts ==
  {<<priceCmd>>}
  \cup {<<priceCmd, c>> : c \in {btc, BTC, bit, <<"B", "i", "t">>, bat, <<"B", "A", "T">>, eth, <<>>}}

\* a JavaScript number-or-missing value: t is "num", "nan" or "undefined"
Num(n) == [t |-> "num", v |-> n]
NaN == [t |-> "nan", v |-> 0]
Undefined == [t |-> "undefined", v |-> 0]

\* the coin records the market-data API may return: two coins, with unique
\* ids, listed under the same ticker symbol, each at 40 or at 50
CoinRecs ==
  { [id |-> bit, symbol |-> btc, name |-> "Bitcoin",
     current_price |-> 40, price_change_percentage_24h |-> Num(-3456)],
    [id |-> bit, symbol |-> btc, name |-> "Bitcoin",
     current_price |-> 50, price_change_percentage_24h |-> Num(0)],
    [id |-> bat, symbol |-> btc, name |-> "Batcat",
     current_price |-> 40, price_change_percentage_24h |-> Undefined],
    [id |-> bat, symbol |-> btc, name |-> "Batcat",
     current_price |-> 50, price_change_percentage_24h |-> Num(1234)] }

DistinctIds(s) == \A i, j \in DOMAIN s : s[i].id = s[j].id => i = j

Snapshots ==
  UNION { {s \in [1..n -> CoinRecs] : DistinctIds(s)} : n \in 0..MaxCoins }

\* what fetchCryptoData resolves to: response.data, or null after an error
FetchResults ==
  {[ok |-> FALSE, data |-> <<>>]} \cup {[ok |-> TRUE, data |-> s] : s \in Snapshots}

Changes == {Num(n) : n \in (0 - MaxChange)..MaxChange} \cup {NaN, Undefined}

\* ------------------------------------------------------------------ state
VARIABLES priceAlerts, pending, last

vars == <<priceAlerts, pending, last>>

\* the cleared slot Map.prototype.delete leaves behind in the entry list
Empty == [key |-> <<0, <<>>>>, value |-> [coin |-> <<>>, price |-> 0, userId |-> 0]]

NoOut == [na |-> FALSE, marker |-> "", neg |-> FALSE, digits |-> 0]

\* observation of the latest handler run: its inputs, its reply, what it sent
Blank ==
  [op |-> "init", userId |-> 0, arg |-> <<>>, key |-> Empty.key, price |-> 0, reply |-> "",
   items |-> <<>>, before |-> <<>>, res |-> [ok |-> FALSE, data |-> <<>>],
   sent |-> <<>>, visited |-> <<>>, size |-> 0, fetches |-> 0,
   change |-> Undefined, out |-> NoOut]

\* ------------------------------------------------------ string conversions
\* toLowerCase on one character, for the letters the inputs are written in
LowerChar(c) ==
  CASE c = "A" -> "a" [] c = "B" -> "b" [] c = "C" -> "c" [] c = "E" -> "e"
    [] c = "H" -> "h" [] c = "I" -> "i" [] c = "T" -> "t" [] OTHER -> c

toLowerCase(s) == [i \in 1..Len(s) |-> LowerChar(s[i])]

IsDigit(c) == c \in {"0", "1", "2", "3", "4", "5", "6", "7", "8", "9"}

DigitVal(c) ==
  CASE c = "0" -> 0 [] c = "1" -> 1 [] c = "2" -> 2 [] c = "3" -> 3
    [] c = "4" -> 4 [] c = "5" -> 5 [] c = "6" -> 6 [] c = "7" -> 7
    [] c = "8" -> 8 [] c = "9" -> 9

\* value of the run of digits of s that starts at position i
RECURSIVE DigitsValue(_, _, _)
DigitsValue(s, i, acc) ==
  IF i > Len(s) \/ ~IsDigit(s[i]) THEN acc
  ELSE DigitsValue(s, i + 1, 10 * acc + DigitVal(s[i]))

\* parseFloat on tokens without fraction or exponent: optional sign, then
\* the longest prefix of digits; NaN when there is no digit
parseFloat(s) ==
  LET signed == Len(s) >= 1 /\ s[1] \in {"-", "+"}
      start == IF signed THEN 2 ELSE 1
  IN IF start > Len(s) \/ ~IsDigit(s[start]) THEN NaN
     ELSE IF signed /\ s[1] = "-" THEN Num(0 - DigitsValue(s, start, 0))
     ELSE Num(DigitsValue(s, start, 0))

isNaN(x) == x.t = "nan"

\* parts[i] of the array split returns, and its truthiness: an index past
\* the end gives undefined, and both undefined and '' are falsy
Truthy(parts, i) == i <= Len(parts) /\ parts[i] # <<>>

\* --------------------------------------------------------------- formatter
Abs(n) == IF n < 0 THEN 0 - n ELSE n

\* Number.prototype.toFixed(2) of n thousandths: sign and hundredths,
\* rounded to nearest, a tie going to the larger magnitude
toFixed2(n) == [neg |-> n < 0, digits |-> (Abs(n) + 5) \div 10]

\* !change: undefined, NaN and 0 are falsy
Falsy(change) == change.t # "num" \/ change.v = 0

formatPriceChange(change) ==
  IF Falsy(change) THEN [NoOut EXCEPT !.na = TRUE]
  ELSE [na |-> FALSE,
        marker |-> IF change.v >= 0 THEN "up" ELSE "down",
        neg |-> toFixed2(change.v).neg,
        digits |-> toFixed2(change.v).digits]

\* ------------------------------------------------------------ the registry
Live(entries) == SelectSeq(entries, LAMBDA e : e # Empty)

MapSize(entries) == Len(Live(entries))

MapHas(entries, key) == \E i \in DOMAIN entries : entries[i] # Empty /\ entries[i].key = key

\* Map.prototype.set: an existing key keeps its place, a new key is appended
MapSet(entries, key, value) ==
  IF MapHas(entries, key)
  THEN [i \in DOMAIN entries |->
          IF entries[i] # Empty /\ entries[i].key = key
          THEN [key |-> key, value |-> value] ELSE entries[i]]
  ELSE Append(entries, [key |-> key, value |-> value])

\* a delete that closes the gap, moving every later entry one place down
MapDeleteShifting(entries, key) == SelectSeq(entries, LAMBDA e : e.key # key)

\* Map.prototype.delete: the slot is cleared in place; the entry list of a
\* map under iteration keeps its length and the places of the other entries
MapDelete(entries, key) ==
  [i \in DOMAIN entries |->
     IF entries[i] # Empty /\ entries[i].key = key THEN Empty ELSE entries[i]]

\* data.find(c => c.id === coin || c.symbol === coin): the index of the
\* first match, 0 for undefined
Find(data, coin) ==
  IF \E i \in DOMAIN data : data[i].id = coin \/ data[i].symbol = coin
  THEN CHOOSE i \in DOMAIN data :
         /\ data[i].id = coin \/ data[i].symbol = coin
         /\ \A j \in 1..(i - 1) : ~(data[j].id = coin \/ data[j].symbol = coin)
  ELSE 0

\* -------------------------------------------------------- command handlers
\* the template string `${userId}-${coin}`: userId is a number and holds no
\* '-', so the string determines the pair and the pair stands for it
AlertKey(userId, coin) == <<userId, coin>>

\* bot.command('alert')
Alert(userId, parts) ==
  /\ pending' = pending
  /\ IF ~Truthy(parts, 2) \/ ~Truthy(parts, 3)
     THEN /\ priceAlerts' = priceAlerts
          /\ last' = [Blank EXCEPT !.op = "alert", !.userId = userId, !.reply = "usage"]
     ELSE LET coin == parts[2]
              alertPrice == parseFloat(parts[3])
              alertKey == AlertKey(userId, coin)
          IN IF isNaN(alertPrice)
             THEN /\ priceAlerts' = priceAlerts
                  /\ last' = [Blank EXCEPT !.op = "alert", !.userId = userId,
                                           !.reply = "invalid"]
             ELSE /\ MapHas(priceAlerts, alertKey) \/ MapSize(priceAlerts) < MaxAlerts
                  /\ priceAlerts' =
                       MapSet(priceAlerts, alertKey,
                              [coin |-> toLowerCase(coin), price |-> alertPrice.v,
                               userId |-> userId])
                  /\ last' = [Blank EXCEPT !.op = "alert", !.userId = userId,
                                           !.key = alertKey, !.price = alertPrice.v,
                                           !.reply = "set"]

\* the records priceAlerts.forEach hands to the /myalerts callback that pass
\* its userId test, as (coin, price) lines in iteration order
MyAlertLines(entries, userId) ==
  LET mine == SelectSeq(Live(entries), LAMBDA e : e.value.userId = userId)
  IN [i \in 1..Len(mine) |-> [coin |-> mine[i].value.coin, price |-> mine[i].value.price]]

\* bot.command('myalerts')
Myalerts(userId) ==
  LET lines == MyAlertLines(priceAlerts, userId)
  IN /\ last' = [Blank EXCEPT !.op = "myalerts", !.userId = userId, !.items = lines,
                              !.reply = IF lines # <<>> THEN "list" ELSE "none"]
     /\ UNCHANGED <<priceAlerts, pending>>

\* bot.command('price'); the handler touches no shared state, so its await
\* of the fetch is folded into the step, res being what the fetch resolved
\* to.  Of the reply the step keeps which of the three texts it is and, for
\* the price card, the current price and the formatted 24h change
Price(parts, res) ==
  /\ IF ~Truthy(parts, 2)
     THEN last' = [Blank EXCEPT !.op = "price", !.reply = "usage"]
     ELSE LET coin == toLowerCase(parts[2])
              coinData == IF res.ok THEN Find(res.data, coin) ELSE 0
              seen == [Blank EXCEPT !.op = "price", !.arg = parts[2], !.res = res,
                                    !.fetches = 1]
          IN IF coinData = 0
             THEN last' = [seen EXCEPT !.reply = "notfound"]
             ELSE last' = [seen EXCEPT
                             !.reply = "info",
                             !.price = res.data[coinData].current_price,
                             !.change = res.data[coinData].price_change_percentage_24h,
                             !.out = formatPriceChange(
                                       res.data[coinData].price_change_percentage_24h)]
  /\ UNCHANGED <<priceAlerts, pending>>

\* bot.command('market'), up to the choice between its two replies
Market(res) ==
  /\ last' = [Blank EXCEPT !.op = "market", !.res = res, !.fetches = 1,
                           !.reply = IF ~res.ok THEN "unavailable" ELSE "overview"]
  /\ UNCHANGED <<priceAlerts, pending>>

\* ------------------------------------------------------- alert check timer
\* the comparison without its equality case
PriceReachedStrict(current_price, price) == current_price > price

\* the comparison turned around
PriceReachedBelow(current_price, price) == current_price <= price

\* coinData.current_price >= alert.price
PriceReached(current_price, price) == current_price >= price

\* the callback with its delete moved out of the price test: every entry
\* whose coin is found is dropped, notified or not
AlertCheckDropFound(entries, e, data, sent) ==
  LET coinData == Find(data, e.value.coin)
  IN IF coinData = 0 THEN [entries |-> entries, sent |-> sent]
     ELSE [entries |-> MapDelete(entries, e.key),
           sent |-> IF PriceReached(data[coinData].current_price, e.value.price)
                    THEN Append(sent, [userId |-> e.value.userId,
                                       name |-> data[coinData].name,
                                       current_price |-> data[coinData].current_price,
                                       key |-> e.key])
                    ELSE sent]

\* the callback of priceAlerts.forEach in the timer, run on one entry
AlertCheck(entries, e, data, sent) ==
  LET coinData == Find(data, e.value.coin)
  IN IF coinData # 0 /\ PriceReached(data[coinData].current_price, e.value.price)
     THEN [entries |-> MapDelete(entries, e.key),
           sent |-> Append(sent, [userId |-> e.value.userId,
                                  name |-> data[coinData].name,
                                  current_price |-> data[coinData].current_price,
                                  key |-> e.key])]
     ELSE [entries |-> entries, sent |-> sent]

\* Map.prototype.forEach: walks the entry list by position, passing over
\* cleared slots and reading the list's length again after every callback
RECURSIVE ForEach(_, _, _, _, _)
ForEach(entries, index, data, sent, visited) ==
  IF index > Len(entries) THEN [entries |-> entries, sent |-> sent, visited |-> visited]
  ELSE IF entries[index] = Empty THEN ForEach(entries, index + 1, data, sent, visited)
  ELSE LET r == AlertCheck(entries, entries[index], data, sent)
       IN ForEach(r.entries, index + 1, data, r.sent, Append(visited, entries[index].key))

\* the timer without its short-circuit on an empty registry
ShouldFetchAlways(entries) == TRUE

\* priceAlerts.size > 0
ShouldFetch(entries) == MapSize(entries) > 0

\* the timer fires: the callback runs up to its await, or to its end when
\* the registry is empty
TickFire ==
  /\ ShouldFetch(priceAlerts) => pending < MaxPending
  /\ pending' = IF ShouldFetch(priceAlerts) THEN pending + 1 ELSE pending
  /\ last' = [Blank EXCEPT !.op = "tick", !.size = MapSize(priceAlerts),
                           !.fetches = IF ShouldFetch(priceAlerts) THEN 1 ELSE 0]
  /\ UNCHANGED priceAlerts

\* the fetch of a suspended callback resolves and the callback runs to its
\* end: return on null, the forEach pass otherwise
FetchResolve(res) ==
  /\ pending > 0
  /\ pending' = pending - 1
  /\ IF ~res.ok
     THEN /\ priceAlerts' = priceAlerts
          /\ last' = [Blank EXCEPT !.op = "fetchfail", !.before = priceAlerts, !.res = res]
     ELSE LET r == ForEach(priceAlerts, 1, res.data, <<>>, <<>>)
          IN /\ priceAlerts' = Live(r.entries)
             /\ last' = [Blank EXCEPT !.op = "scan", !.before = priceAlerts, !.res = res,
                                      !.sent = r.sent, !.visited = r.visited]

\* formatPriceChange applied to the input drawn by InitFormat
Format ==
  /\ last.op = "input"
  /\ last' = [last EXCEPT !.op = "format", !.out = formatPriceChange(last.change)]
  /\ UNCHANGED <<priceAlerts, pending>>

\* --------------------------------------------------------- specifications
Init ==
  /\ priceAlerts = <<>>
  /\ pending = 0
  /\ last = Blank

Next ==
  \/ \E u \in Users, parts \in AlertParts : Alert(u, parts)
  \/ \E u \in Users : Myalerts(u)
  \/ TickFire
  \/ \E res \in FetchResults : FetchResolve(res)

Spec == Init /\ [][Next]_vars

\* the commands that only read the market data
NextCmd ==
  \/ \E parts \in PriceParts, res \in FetchResults : Price(parts, res)
  \/ \E res \in FetchResults : Market(res)

SpecCmd == Init /\ [][NextCmd]_vars

\* formatPriceChange on every input of Changes
InitFormat ==
  /\ priceAlerts = <<>>
  /\ pending = 0
  /\ \E c \in Changes : last = [Blank EXCEPT !.op = "input", !.change = c]

NextFormat == Format

SpecFormat == InitFormat /\ [][NextFormat]_vars

\* ------------------------------------------------------------- properties
\* a coin record answers to a coin identifier by its id or by its symbol
Matches(c, coin) == c.id = coin \/ c.symbol = coin

\* the positions of data that hold the first record answering to coin
FirstMatching(data, coin) ==
  {j \in DOMAIN data :
     Matches(data[j], coin) /\ \A k \in 1..(j - 1) : ~Matches(data[k], coin)}

\* the notifications of the latest pass that were sent for entry e
SentFor(e) ==
  {n \in DOMAIN last.sent :
     last.sent[n].key = e.key /\ last.sent[n].userId = e.value.userId}

KeysOf(entries) == [i \in DOMAIN entries |-> entries[i].key]

\* C1: the registry never holds two records with the same owning user and
\* the same lower-cased coin, and /myalerts never lists a coin twice.
C1_OneAlertPerUserCoin ==
  /\ \A i, j \in DOMAIN priceAlerts :
       (/\ priceAlerts[i].value.userId = priceAlerts[j].value.userId
        /\ priceAlerts[i].value.coin = priceAlerts[j].value.coin) => i = j
  /\ last.op = "myalerts" =>
       \A i, j \in DOMAIN last.items : last.items[i].coin = last.items[j].coin => i = j

\* C2 as stated: after a pass, every entry that was in the registry and for
\* which the snapshot holds some record answering to its coin at a price >=
\* its target has exactly one notification, to its owner, and is gone.
C2_AnyMatchNotifiedOnce ==
  last.op = "scan" =>
    \A i \in DOMAIN last.before :
      LET e == last.before[i]
      IN (\E j \in DOMAIN last.res.data :
            /\ Matches(last.res.data[j], e.value.coin)
            /\ last.res.data[j].current_price >= e.value.price)
         => Cardinality(SentFor(e)) = 1 /\ ~MapHas(priceAlerts, e.key)

\* C2 amended: after a pass, every entry that was in the registry and whose
\* first answering record in the snapshot has a price >= its target has
\* exactly one notification, to its owner, and is gone; and every
\* notification of the pass is for an entry that was in the registry.
C2_FirstMatchNotifiedOnce ==
  last.op = "scan" =>
    /\ \A i \in DOMAIN last.before :
         LET e == last.before[i]
         IN (\E j \in FirstMatching(last.res.data, e.value.coin) :
               last.res.data[j].current_price >= e.value.price)
            => Cardinality(SentFor(e)) = 1 /\ ~MapHas(priceAlerts, e.key)
    /\ \A n \in DOMAIN last.sent :
         \E i \in DOMAIN last.before : n \in SentFor(last.before[i])

\* a pass has notified for an entry whose target equals the price found
W_C2 ==
  /\ last.op = "scan"
  /\ \E i \in DOMAIN last.before :
       /\ \E j \in FirstMatching(last.res.data, last.before[i].value.coin) :
            last.res.data[j].current_price = last.before[i].value.price
       /\ SentFor(last.before[i]) # {}

\* C3 as stated: a pass leaves an entry in place, unchanged and without
\* notification, when the snapshot holds some record answering to its coin at
\* a price below its target, or holds no record answering to its coin.
C3_AnyMatchBelowUntouched ==
  last.op = "scan" =>
    \A i \in DOMAIN last.before :
      LET e == last.before[i]
      IN (\/ \E j \in DOMAIN last.res.data :
               /\ Matches(last.res.data[j], e.value.coin)
               /\ last.res.data[j].current_price < e.value.price
          \/ \A j \in DOMAIN last.res.data : ~Matches(last.res.data[j], e.value.coin))
         => /\ \E k \in DOMAIN priceAlerts : priceAlerts[k] = e
            /\ SentFor(e) = {}

\* C3 amended: a pass leaves an entry in place, unchanged and without
\* notification, when the first record of the snapshot answering to its coin
\* has a price below its target, or no record answers to its coin.
C3_FirstMatchBelowUntouched ==
  last.op = "scan" =>
    \A i \in DOMAIN last.before :
      LET e == last.before[i]
      IN (\/ \E j \in FirstMatching(last.res.data, e.value.coin) :
               last.res.data[j].current_price < e.value.price
          \/ FirstMatching(last.res.data, e.value.coin) = {})
         => /\ \E k \in DOMAIN priceAlerts : priceAlerts[k] = e
            /\ \A n \in DOMAIN last.sent : last.sent[n].key # e.key

\* a pass has kept one entry whose coin was found below its target and one
\* whose coin was not found
W_C3 ==
  /\ last.op = "scan"
  /\ \E i \in DOMAIN last.before :
       /\ \E j \in FirstMatching(last.res.data, last.before[i].value.coin) :
            last.res.data[j].current_price < last.before[i].value.price
       /\ \E k \in DOMAIN priceAlerts : priceAlerts[k] = last.before[i]
  /\ \E i \in DOMAIN last.before :
       /\ FirstMatching(last.res.data, last.before[i].value.coin) = {}
       /\ \E k \in DOMAIN priceAlerts : priceAlerts[k] = last.before[i]

\* C4: a timer fire issues no fetch when the registry is empty and one fetch
\* otherwise; the pass that follows issues none, and the one snapshot it was
\* given decides the outcome for every entry.
C4_OneFetchUnlessEmpty ==
  /\ last.op = "tick" => last.fetches = IF last.size = 0 THEN 0 ELSE 1
  /\ last.op \in {"scan", "fetchfail"} => last.fetches = 0
  /\ last.op = "scan" =>
       \A i \in DOMAIN last.before :
         LET e == last.before[i]
         IN SentFor(e) # {} <=>
              \E j \in FirstMatching(last.res.data, e.value.coin) :
                last.res.data[j].current_price >= e.value.price

\* the timer has fired on a registry that an earlier pass had emptied, while
\* another callback is still suspended on its fetch
W_C4 == last.op = "tick" /\ last.size = 0 /\ last.fetches = 0 /\ pending > 0

\* C5: /price with a coin argument replies "unavailable" when its fetch
\* failed.
C5_PriceReportsFetchFailure ==
  (last.op = "price" /\ last.fetches = 1 /\ ~last.res.ok) => last.reply = "unavailable"

\* C6: no record in the registry has a negative target price.
C6_TargetNonNegative == \A i \in DOMAIN priceAlerts : priceAlerts[i].value.price >= 0

\* C7: formatPriceChange renders every number with the up marker when it is
\* >= 0 and the down marker when it is < 0, and a missing value as N/A.
C7_MarkerBySign ==
  last.op = "format" =>
    /\ last.change.t = "num" =>
         /\ ~last.out.na
         /\ last.out.marker = IF last.change.v >= 0 THEN "up" ELSE "down"
    /\ last.change.t = "undefined" => last.out.na

\* C8: in every step, each record of the registry is still there unchanged,
\* or the step is an /alert of its owner that stored under its key, or the
\* step is a pass that notified its owner for it.
C8_NoSilentLoss ==
  [][\A i \in DOMAIN priceAlerts :
       LET e == priceAlerts[i]
       IN \/ \E k \in DOMAIN priceAlerts' : priceAlerts'[k] = e
          \/ /\ last'.op = "alert"
             /\ last'.reply = "set"
             /\ last'.key = e.key
             /\ last'.userId = e.value.userId
          \/ /\ last'.op = "scan"
             /\ \E n \in DOMAIN last'.sent :
                  /\ last'.sent[n].key = e.key
                  /\ last'.sent[n].userId = e.value.userId]_vars

\* a pass has notified for one record and kept another, while another
\* callback is still suspended on its fetch
W_C8 ==
  /\ last.op = "scan"
  /\ last.sent # <<>>
  /\ priceAlerts # <<>>
  /\ pending > 0

\* C9: at most one evaluation is in progress at any time.
C9_AtMostOneEvaluation == pending <= 1

\* C10 as stated: a pass runs its callback once on every entry that was in
\* the registry, in order, and leaves no entry for which the snapshot holds
\* some record answering to its coin at a price >= its target.
C10_NoSkipNoAnyMatchLeft ==
  last.op = "scan" =>
    /\ last.visited = KeysOf(last.before)
    /\ \A k \in DOMAIN priceAlerts :
         ~\E j \in DOMAIN last.res.data :
            /\ Matches(last.res.data[j], priceAlerts[k].value.coin)
            /\ last.res.data[j].current_price >= priceAlerts[k].value.price

\* C10 amended: a pass runs its callback once on every entry that was in the
\* registry, in order, and leaves no entry whose first answering record in
\* the snapshot has a price >= its target.
C10_NoSkipNoFirstMatchLeft ==
  last.op = "scan" =>
    /\ last.visited = KeysOf(last.before)
    /\ \A k \in DOMAIN priceAlerts :
         ~\E j \in FirstMatching(last.res.data, priceAlerts[k].value.coin) :
            last.res.data[j].current_price >= priceAlerts[k].value.price

\* a pass has deleted the first of several entries and gone on to the rest
W_C10 ==
  /\ last.op = "scan"
  /\ Len(last.before) >= 2
  /\ last.sent # <<>>
  /\ last.sent[1].key = last.before[1].key
  /\ Len(last.visited) = Len(last.before)

====
